---- MODULE Spec2Model ----
(***************************************************************************)
(* MedMatch provider recommender: the data cache manager                   *)
(* (src/src/data/ingestion.py) as it is driven by the Streamlit entry      *)
(* point (src/app.py) and the Update Data page.                            *)
(*                                                                         *)
(* Threads are the script threads of the user sessions and the background  *)
(* warm-up thread started by _build_and_run_app.  load_data is modelled at *)
(* the grain of its accesses to shared state: the exists() test, the       *)
(* stat() call and the call of the st.cache_data-decorated loader.  The    *)
(* decorated call (lookup, and on a miss read + transform + store) is one  *)
(* step.                                                                   *)
(***************************************************************************)
EXTENDS Integers, Sequences, FiniteSets, TLC

(***************************************************************************)
(* Program constants                                                       *)
(***************************************************************************)
TTL == 3600
SecondsPerDay == 24 * 60 * 60
RefreshTime == 4 * 60 * 60

DataSource == {"all_referrals", "provider", "preferred_providers"}
PROVIDER_DATA == "provider"
critical_sources == <<"all_referrals", "preferred_providers", "provider">>
ParquetPath == "data/processed/Combined_Contacts_and_Reviews.parquet"

(***************************************************************************)
(* Bounds of the model                                                     *)
(***************************************************************************)
MaxDay == 1
MaxMtime == 2
WindowTicks == 2

Sessions == {"s1", "s2"}
Background == {"bg"}
Main == {"s1"}
Threads == Sessions \cup Background

\* one tick stays inside the TTL, two ticks leave it
TickUnit == (2 * TTL) \div 3

Days == 0..MaxDay
Mtimes == 1..MaxMtime
StartTime == RefreshTime - TickUnit

Day(t) == t \div SecondsPerDay
TimeOfDay(t) == t % SecondsPerDay
InWindow(t) == TimeOfDay(t) <= StartTime + WindowTicks * TickUnit

(***************************************************************************)
(* Values: tables, cache entries, thread frames                            *)
(***************************************************************************)
Empty == [kind |-> "empty", ver |-> 0, view |-> "none"]
Raise == [kind |-> "raise", ver |-> 0, view |-> "none"]
NoResult == [kind |-> "none", ver |-> 0, view |-> "none"]
NoEntry == [present |-> FALSE, created |-> 0, data |-> NoResult]
NoLoad == [done |-> FALSE, m |-> 0, at |-> 0, data |-> NoResult]
NoDate == 0 - 1
\* the status file does not exist
NoStatus == [exists |-> FALSE, marker |-> "none", id |-> 0]

NoTable == [columns |-> {}, rows |-> <<>>]
NoArgs == [call |-> "none"]
NoOutcome == [call |-> "none"]
NoPre == [valid |-> FALSE, age |-> NoDate, purged |-> FALSE, changed |-> FALSE,
          stored |-> NoResult]

Keys == DataSource \X {ParquetPath} \X Mtimes
EmptyCache == [k \in Keys |-> NoEntry]

IdleThread ==
    [pc |-> "idle", ctx |-> "none", cur |-> "none", lm |-> 0, todo |-> <<>>,
     res |-> NoResult, reads |-> 0, fail |-> "none", pre |-> NoPre,
     attempted |-> {}, loaded |-> {}, raised |-> FALSE,
     at |-> 0, last |-> NoDate, didPurge |-> FALSE, didDate |-> FALSE, ret |-> "none"]

VARIABLES
    now,           \* wall clock and cache timer, in seconds
    file,          \* the parquet file: [kind, mtime]
    cache,         \* st.cache_data store of _load_and_process_data_cached
    session_state, \* per session: st.session_state["last_daily_refresh_date"]
    thr,           \* per thread: position and locals
    hist,          \* per source: the last load that stored an entry, since the last purge
                   \* (a frame's pre: what its cached call found of these records)
    purgedSince,   \* per source: a purge happened since its last cached call
    changedSince,  \* per source: the file was written since its last up-to-date get
    purgesOn,      \* per day: number of daily checks that purged
    focus,         \* the logical id the pages of this run load
    table,         \* the table handed to the scoring engine, the orchestrator or the normalizer
    args,          \* the arguments of that call
    result,        \* what the call returned
    status_file,   \* data/processed/data_auto_update_status.txt
    displayed,     \* the statuses the pages have shown, in order
    memo,          \* st.cache_data store of the module-level loaders
    calls          \* the earlier calls of the scoring engine and what they returned

vars == <<now, file, cache, session_state, thr, hist, purgedSince, changedSince, purgesOn, focus,
          table, args, result, status_file, displayed, memo, calls>>
engine == <<table, args, result>>
side == <<status_file, displayed, memo, calls>>
ghost == <<hist, purgedSince, changedSince, purgesOn, focus>>

(***************************************************************************)
(* Pure parts of the loader                                                *)
(***************************************************************************)
\* pathlib.Path.exists()
Exists(f) == f.kind # "missing"

\* pathlib.Path.stat() raises when the file is gone
StatRaises(f) == f.kind = "missing"

\* pd.read_parquet: raises on a missing or corrupt file
ReadParquet(f) ==
    IF f.kind = "ok" THEN [kind |-> "table", ver |-> f.mtime, view |-> "raw"] ELSE Raise

_transform_combined_data(df) == [df EXCEPT !.view = "standard"]

_process_provider_data(df) ==
    IF df.kind # "table" THEN df ELSE [df EXCEPT !.view = "provider"]

CachedBodyRaises(source, f) ==
    LET raw == ReadParquet(f) IN
    IF raw = Raise THEN Raise
    ELSE LET df == _transform_combined_data(raw) IN
         IF source = PROVIDER_DATA THEN _process_provider_data(df) ELSE df

\* body of _load_and_process_data_cached, try/except included
CachedBody(source, f) ==
    LET raw == ReadParquet(f) IN
    IF raw = Raise THEN Empty
    ELSE LET df == _transform_combined_data(raw) IN
         IF source = PROVIDER_DATA THEN _process_provider_data(df) ELSE df

LiveMinutes(e, t) == e.present /\ t - e.created < TTL \div 60

LiveForever(e, t) == e.present

\* st.cache_data(ttl=3600): an entry is served while its age is below the TTL
Live(e, t) == e.present /\ t - e.created < TTL

KeyWithoutMtime(source, file_path, last_modified) == <<source, file_path, 1>>

\* the arguments of _load_and_process_data_cached that st.cache_data hashes
CacheKey(source, file_path, last_modified) == <<source, file_path, last_modified>>

ClearNothing(c) == c

\* st.cache_data.clear()
ClearCacheData(c) == EmptyCache

NoCatch(df) == df

\* except clause of _load_and_process_data
CatchLoad(df) == IF df = Raise THEN Empty ELSE df

\* tail of load_data after _load_and_process_data returned df
LoadDataPost(source, df) ==
    IF source = PROVIDER_DATA /\ df.kind = "table" THEN _process_provider_data(df) ELSE df

PreloadStopsOnFailure(todo, loaded, source, df) ==
    IF df.kind = "table"
    THEN [todo |-> todo, loaded |-> loaded \cup {source}, raised |-> FALSE]
    ELSE [todo |-> <<>>, loaded |-> loaded, raised |-> FALSE]

\* one turn of the loop of preload_data, load_data having returned df
PreloadTurn(todo, loaded, source, df) ==
    IF df = Raise
    THEN [todo |-> todo, loaded |-> loaded, raised |-> FALSE]
    ELSE IF df.kind = "table"
         THEN [todo |-> todo, loaded |-> loaded \cup {source}, raised |-> FALSE]
         ELSE [todo |-> todo, loaded |-> loaded, raised |-> FALSE]

RefreshBeforeFour(t, last_refresh_date) ==
    last_refresh_date = NoDate \/ last_refresh_date # Day(t)

\* should_refresh of check_and_refresh_daily_cache
ShouldRefresh(t, last_refresh_date) ==
    (last_refresh_date = NoDate \/ last_refresh_date # Day(t)) /\ TimeOfDay(t) >= RefreshTime

(***************************************************************************)
(* Initial state: process start, before 04:00 on day 0, nothing cached     *)
(***************************************************************************)
InitState ==
    /\ now = StartTime
    /\ file \in {[kind |-> "ok", mtime |-> 1], [kind |-> "missing", mtime |-> 1]}
    /\ cache = EmptyCache
    /\ session_state = [s \in Sessions |-> NoDate]
    /\ thr = [t \in Threads |-> IdleThread]
    /\ hist = [src \in DataSource |-> NoLoad]
    /\ purgedSince = [src \in DataSource |-> FALSE]
    /\ changedSince = [src \in DataSource |-> FALSE]
    /\ purgesOn = [d \in Days |-> 0]
    /\ status_file = NoStatus
    /\ displayed = <<>>
    /\ memo = [src \in DataSource |-> NoEntry]
    /\ calls = <<>>

\* no recommendation has been asked for
EngineIdle == table = NoTable /\ args = NoArgs /\ result = NoOutcome

Init == InitState /\ focus \in DataSource /\ EngineIdle
InitBackground == InitState /\ focus = PROVIDER_DATA /\ EngineIdle

(***************************************************************************)
(* Environment: the clock and the ETL scripts that rewrite the file        *)
(***************************************************************************)
\* the store drops the entries whose TTL has elapsed
Expire(c, t) == [k \in Keys |-> IF Live(c[k], t) THEN c[k] ELSE NoEntry]

Tick ==
    /\ InWindow(now + TickUnit)
    /\ now' = now + TickUnit
    /\ cache' = Expire(cache, now')
    /\ UNCHANGED <<file, session_state, thr, ghost, engine, side>>

NextDay ==
    /\ Day(now) < MaxDay
    /\ now' = now + SecondsPerDay
    /\ cache' = Expire(cache, now')
    /\ UNCHANGED <<file, session_state, thr, ghost, engine, side>>

WriteFile(kind) ==
    /\ file.mtime < MaxMtime
    /\ file' = [kind |-> kind, mtime |-> file.mtime + 1]
    /\ changedSince' = [src \in DataSource |-> TRUE]
    /\ UNCHANGED <<now, cache, session_state, thr, hist, purgedSince, purgesOn, focus, engine, side>>

DeleteFile ==
    /\ file.kind # "missing"
    /\ file' = [file EXCEPT !.kind = "missing"]
    /\ UNCHANGED <<now, cache, session_state, thr, ghost, engine, side>>

(***************************************************************************)
(* load_data, step by step                                                 *)
(***************************************************************************)
\* the frame of a thread once its load_data call has returned df
Continue(r, df) ==
    LET post == LoadDataPost(r.cur, df)
        turn == PreloadTurn(r.todo, r.loaded, r.cur, post)
        q == [r EXCEPT !.attempted = @ \cup {r.cur}, !.loaded = turn.loaded,
                       !.raised = turn.raised, !.lm = 0, !.reads = 0,
                       !.fail = "none", !.pre = NoPre]
    IN  IF r.ctx = "page" THEN [r EXCEPT !.pc = "done", !.res = post]
        ELSE IF r.ctx = "memo" THEN [r EXCEPT !.pc = "memo", !.res = post]
        ELSE IF turn.raised THEN [q EXCEPT !.pc = "done", !.todo = <<>>]
        ELSE IF turn.todo # <<>>
             THEN [q EXCEPT !.pc = "path", !.cur = Head(turn.todo), !.todo = Tail(turn.todo)]
        ELSE IF r.ctx = "daily"
             THEN [q EXCEPT !.pc = "spawn", !.todo = <<>>, !.ret = "True"]
        ELSE [q EXCEPT !.pc = "done", !.todo = <<>>]

\* _get_parquet_file_path: exists() test
GetPath(t) ==
    /\ thr[t].pc = "path"
    /\ thr' = [thr EXCEPT ![t] =
                 IF Exists(file) THEN [@ EXCEPT !.pc = "stat"]
                 ELSE Continue([@ EXCEPT !.fail = "missing"], Empty)]
    /\ UNCHANGED <<now, file, cache, session_state, ghost, engine, side>>

\* file_path.stat().st_mtime, inside the try of _load_and_process_data
Stat(t) ==
    /\ thr[t].pc = "stat"
    /\ thr' = [thr EXCEPT ![t] =
                 IF StatRaises(file)
                 THEN Continue([@ EXCEPT !.fail = "missing"], CatchLoad(Raise))
                 ELSE [@ EXCEPT !.pc = "cached", !.lm = file.mtime]]
    /\ UNCHANGED <<now, file, cache, session_state, ghost, engine, side>>

\* the call of _load_and_process_data_cached(source, str(file_path), last_modified)
Cached(t) ==
    /\ thr[t].pc = "cached"
    /\ LET r == thr[t]
           key == CacheKey(r.cur, ParquetPath, r.lm)
           hit == Live(cache[key], now)
           df == IF hit THEN cache[key].data ELSE CachedBody(r.cur, file)
           h == hist[r.cur]
           same == h.done /\ h.m = r.lm
           snap == [valid |-> TRUE,
                    age |-> IF same THEN now - h.at ELSE NoDate,
                    purged |-> purgedSince[r.cur],
                    changed |-> changedSince[r.cur] /\ r.lm = file.mtime,
                    stored |-> IF same /\ now - h.at < TTL THEN h.data ELSE NoResult]
       IN  /\ cache' = IF hit THEN cache
                       ELSE [cache EXCEPT ![key] =
                               [present |-> TRUE, created |-> now, data |-> df]]
           /\ thr' = [thr EXCEPT ![t] =
                        Continue([r EXCEPT !.reads = IF hit THEN 0 ELSE 1,
                                           !.fail = IF ~hit /\ file.kind # "ok"
                                                    THEN file.kind ELSE "none",
                                           !.pre = snap],
                                 CatchLoad(df))]
           /\ hist' = IF hit THEN hist
                      ELSE [hist EXCEPT ![r.cur] =
                              [done |-> TRUE, m |-> r.lm, at |-> now, data |-> df]]
           /\ purgedSince' = [purgedSince EXCEPT ![r.cur] = FALSE]
           /\ changedSince' = IF r.lm = file.mtime
                              THEN [changedSince EXCEPT ![r.cur] = FALSE]
                              ELSE changedSince
    /\ UNCHANGED <<now, file, session_state, purgesOn, focus, engine, side>>

\* a page of session s calls load_data(source)
PageLoad(s, source) ==
    /\ thr[s].pc = "idle"
    /\ source = focus
    /\ thr' = [thr EXCEPT ![s] = [IdleThread EXCEPT !.pc = "path", !.ctx = "page", !.cur = source]]
    /\ UNCHANGED <<now, file, cache, session_state, ghost, engine, side>>

\* the caller has consumed the result
Finish(t) ==
    /\ thr[t].pc = "done"
    /\ thr' = [thr EXCEPT ![t] = IdleThread]
    /\ UNCHANGED <<now, file, cache, session_state, ghost, engine, side>>

(***************************************************************************)
(* refresh_data_cache, from the Update Data page                           *)
(***************************************************************************)
RefreshDataCache(s) ==
    /\ thr[s].pc = "idle"
    /\ cache' = ClearCacheData(cache)
    /\ hist' = [src \in DataSource |-> NoLoad]
    /\ purgedSince' = [src \in DataSource |-> TRUE]
    /\ memo' = [src \in DataSource |-> NoEntry]
    /\ UNCHANGED <<now, file, session_state, thr, changedSince, purgesOn, focus, engine,
                   status_file, displayed, calls>>

(***************************************************************************)
(* _build_and_run_app: check_and_refresh_daily_cache, then the warm-up     *)
(***************************************************************************)
CheckDaily(s) ==
    /\ thr[s].pc = "idle"
    /\ thr' = [thr EXCEPT ![s] =
                 LET r == [IdleThread EXCEPT !.ctx = "daily", !.at = now,
                                             !.last = session_state[s]]
                 IN  IF ShouldRefresh(now, session_state[s])
                     THEN [r EXCEPT !.pc = "d_purge"]
                     ELSE [r EXCEPT !.pc = "spawn", !.ret = "False"]]
    /\ UNCHANGED <<now, file, cache, session_state, ghost, engine, side>>

\* refresh_data_cache() inside the daily refresh
DailyPurge(s) ==
    /\ thr[s].pc = "d_purge"
    /\ cache' = ClearCacheData(cache)
    /\ hist' = [src \in DataSource |-> NoLoad]
    /\ purgedSince' = [src \in DataSource |-> TRUE]
    /\ purgesOn' = [purgesOn EXCEPT ![Day(thr[s].at)] = @ + 1]
    /\ thr' = [thr EXCEPT ![s] = [@ EXCEPT !.pc = "d_date", !.didPurge = TRUE]]
    /\ memo' = [src \in DataSource |-> NoEntry]
    /\ UNCHANGED <<now, file, session_state, changedSince, focus, engine,
                   status_file, displayed, calls>>

\* st.session_state[last_refresh_key] = today, then preload_data() starts
DailySetDate(s) ==
    /\ thr[s].pc = "d_date"
    /\ session_state' = [session_state EXCEPT ![s] = Day(thr[s].at)]
    /\ thr' = [thr EXCEPT ![s] = [@ EXCEPT !.pc = "path", !.didDate = TRUE,
                                            !.cur = Head(critical_sources),
                                            !.todo = Tail(critical_sources)]]
    /\ UNCHANGED <<now, file, cache, ghost, engine, side>>

\* the script run ends
EndRun(s) ==
    /\ thr[s].pc = "spawn"
    /\ thr' = [thr EXCEPT ![s] = IdleThread]
    /\ UNCHANGED <<now, file, cache, session_state, ghost, engine, side>>

\* threading.Thread(target=auto_update_data).start()
Spawn(s, b) ==
    /\ thr[s].pc = "idle"
    /\ thr[b].pc = "idle"
    /\ thr' = [thr EXCEPT ![b] = [IdleThread EXCEPT !.pc = "path", !.ctx = "warmup",
                                                    !.cur = Head(critical_sources),
                                                    !.todo = Tail(critical_sources)]]
    /\ UNCHANGED <<now, file, cache, session_state, ghost, engine, side>>

(***************************************************************************)
(* Spec: the pages of two sessions load one logical id and purge the       *)
(*   cache, while time passes and the file is rewritten.                   *)
(* SpecFail: the same page loads at one instant, the file being rewritten, *)
(*   corrupted or deleted under them.                                      *)
(* SpecWarm: a session starts the background warm-up and may purge while   *)
(*   it runs.                                                              *)
(* SpecDaily: two sessions over several days, the daily check only.        *)
(***************************************************************************)
Next ==
    \/ Tick
    \/ \E k \in {"ok", "corrupt"} : WriteFile(k)
    \/ \E t \in Sessions : GetPath(t)
    \/ \E t \in Sessions : Stat(t)
    \/ \E t \in Sessions : Cached(t)
    \/ \E t \in Sessions : Finish(t)
    \/ \E s \in Sessions, source \in DataSource : PageLoad(s, source)
    \/ \E s \in Sessions : RefreshDataCache(s)

Spec == Init /\ [][Next]_vars

NextFail ==
    \/ \E k \in {"ok", "corrupt"} : WriteFile(k)
    \/ DeleteFile
    \/ \E t \in Sessions : GetPath(t)
    \/ \E t \in Sessions : Stat(t)
    \/ \E t \in Sessions : Cached(t)
    \/ \E t \in Sessions : Finish(t)
    \/ \E s \in Sessions, source \in DataSource : PageLoad(s, source)

SpecFail == Init /\ [][NextFail]_vars

NextWarm ==
    \/ \E k \in {"ok", "corrupt"} : WriteFile(k)
    \/ DeleteFile
    \/ \E b \in Background : GetPath(b)
    \/ \E b \in Background : Stat(b)
    \/ \E b \in Background : Cached(b)
    \/ \E b \in Background : Finish(b)
    \/ \E s \in Main : RefreshDataCache(s)
    \/ \E s \in Main, b \in Background : Spawn(s, b)

SpecWarm == InitBackground /\ [][NextWarm]_vars

NextDaily ==
    \/ Tick
    \/ NextDay
    \/ \E s \in Sessions : GetPath(s)
    \/ \E s \in Sessions : Stat(s)
    \/ \E s \in Sessions : Cached(s)
    \/ \E s \in Sessions : CheckDaily(s)
    \/ \E s \in Sessions : DailyPurge(s)
    \/ \E s \in Sessions : DailySetDate(s)
    \/ \E s \in Sessions : EndRun(s)

SpecDaily == InitBackground /\ [][NextDaily]_vars

(***************************************************************************)
(* The module-level loaders: load_provider_data() and the like, each a     *)
(* st.cache_data(ttl=3600) function of no argument around load_data        *)
(***************************************************************************)
\* a page calls the loader of source: a live entry of its own store is
\* returned as it is, otherwise load_data runs. lm of a served call is the
\* modification time the file had at the call (the loader does not look).
MemoCall(s, source) ==
    /\ thr[s].pc = "idle"
    /\ source = focus
    /\ thr' = [thr EXCEPT ![s] =
                 IF Live(memo[source], now)
                 THEN [IdleThread EXCEPT !.pc = "done", !.ctx = "memo", !.cur = source,
                                         !.lm = file.mtime, !.res = memo[source].data]
                 ELSE [IdleThread EXCEPT !.pc = "path", !.ctx = "memo", !.cur = source]]
    /\ UNCHANGED <<now, file, cache, session_state, ghost, engine, side>>

\* load_data has returned: st.cache_data stores the loader's return value
MemoStore(t) ==
    /\ thr[t].pc = "memo"
    /\ memo' = [memo EXCEPT ![thr[t].cur] =
                  [present |-> TRUE, created |-> now, data |-> thr[t].res]]
    /\ thr' = [thr EXCEPT ![t] = [@ EXCEPT !.pc = "done"]]
    /\ UNCHANGED <<now, file, cache, session_state, ghost, engine, status_file, displayed, calls>>

NextMemo ==
    \/ Tick
    \/ \E k \in {"ok", "corrupt"} : WriteFile(k)
    \/ \E t \in Main : GetPath(t)
    \/ \E t \in Main : Stat(t)
    \/ \E t \in Main : Cached(t)
    \/ \E t \in Main : MemoStore(t)
    \/ \E t \in Main : Finish(t)
    \/ \E s \in Main, source \in DataSource : MemoCall(s, source)
    \/ \E s \in Main : RefreshDataCache(s)

SpecMemo == Init /\ [][NextMemo]_vars

(***************************************************************************)
(* The warm-up status file: auto_update_data writes it, and                *)
(* show_auto_update_status shows and deletes it (src/app.py)               *)
(***************************************************************************)
MaxStatus == 2

\* the first character of the status line
SuccessMark == "check mark"
FailureMark == "cross mark"

\* st.success, st.error or st.info, by the first character of the text
Level(marker) ==
    IF marker = SuccessMark THEN "success"
    ELSE IF marker = FailureMark THEN "error" ELSE "info"

PublishToSession(ss, st, raised) ==
    [session_state |-> [s \in Sessions |-> st.id + 1],
     status_file |-> st]

\* what the background worker leaves behind when preload_data has returned
\* or raised: the status file, rewritten; no Streamlit API is called
Publish(ss, st, raised) ==
    [session_state |-> ss,
     status_file |-> [exists |-> TRUE,
                      marker |-> IF raised THEN FailureMark ELSE SuccessMark,
                      id |-> st.id + 1]]

\* a script run starts auto_update_data on a thread
StartWarmup(s, b) ==
    /\ status_file.id < MaxStatus
    /\ Spawn(s, b)

\* preload_data is over; the status is written and the thread ends
WriteStatus(b) ==
    /\ thr[b].pc = "done" /\ thr[b].ctx = "warmup"
    /\ LET out == Publish(session_state, status_file, thr[b].raised)
       IN  /\ status_file' = out.status_file
           /\ session_state' = out.session_state
    /\ thr' = [thr EXCEPT ![b] = IdleThread]
    /\ UNCHANGED <<now, file, cache, ghost, engine, displayed, memo, calls>>

\* show_auto_update_status: status_file.exists()
ShowExists(s) ==
    /\ thr[s].pc = "idle"
    /\ status_file.exists
    /\ thr' = [thr EXCEPT ![s] = [IdleThread EXCEPT !.pc = "show_read", !.ctx = "status"]]
    /\ UNCHANGED <<now, file, cache, session_state, ghost, engine, side>>

\* read_text() and the st.* call; a file that is gone raises, and the
\* function returns silently
ShowRead(s) ==
    /\ thr[s].pc = "show_read"
    /\ IF status_file.exists
       THEN /\ displayed' = Append(displayed, [id |-> status_file.id,
                                               level |-> Level(status_file.marker), by |-> s])
            /\ thr' = [thr EXCEPT ![s] = [@ EXCEPT !.pc = "show_unlink"]]
       ELSE /\ displayed' = displayed
            /\ thr' = [thr EXCEPT ![s] = IdleThread]
    /\ UNCHANGED <<now, file, cache, session_state, ghost, engine, status_file, memo, calls>>

\* unlink(); a failure is ignored
ShowUnlink(s) ==
    /\ thr[s].pc = "show_unlink"
    /\ status_file' = [status_file EXCEPT !.exists = FALSE]
    /\ thr' = [thr EXCEPT ![s] = IdleThread]
    /\ UNCHANGED <<now, file, cache, session_state, ghost, engine, displayed, memo, calls>>

NextStatus ==
    \/ \E s \in Main, b \in Background : StartWarmup(s, b)
    \/ \E b \in Background : GetPath(b)
    \/ \E b \in Background : Stat(b)
    \/ \E b \in Background : Cached(b)
    \/ \E b \in Background : WriteStatus(b)
    \/ \E s \in Sessions : ShowExists(s)
    \/ \E s \in Sessions : ShowRead(s)
    \/ \E s \in Sessions : ShowUnlink(s)

SpecStatus == InitBackground /\ [][NextStatus]_vars

\* the daily check of the main thread, the warm-up it starts, and the clock
NextFrame ==
    \/ Tick
    \/ \E s \in Main : CheckDaily(s)
    \/ \E s \in Main : DailyPurge(s)
    \/ \E s \in Main : DailySetDate(s)
    \/ \E s \in Main : EndRun(s)
    \/ \E t \in Main \cup Background : GetPath(t)
    \/ \E t \in Main \cup Background : Stat(t)
    \/ \E t \in Main \cup Background : Cached(t)
    \/ \E s \in Main, b \in Background : StartWarmup(s, b)
    \/ \E b \in Background : WriteStatus(b)

SpecFrame == InitBackground /\ [][NextFrame]_vars

(***************************************************************************)
(* The scoring engine: recommend_provider of src/src/utils/scoring.py      *)
(*                                                                         *)
(* A table is a sequence of rows.  Numbers the engine divides are kept as  *)
(* exact fractions [n, d]; the fraction with d = 0 stands for NaN.         *)
(***************************************************************************)
MaxRows == 2

Null == 0 - 2
Names == {<<66>>, <<97>>, <<97, 98>>}
DistValues == {Null, 1, 2}
CountValues == {0, 1}
InboundValues == {Null, 0, 1}
PrefValues == {"Yes", "No"}
PrefTruthy == {"Yes", "yes", "y", "true", "t", "1", "True"}
NoPref == "None"

ColDistance == "Distance (Miles)"
ColCount == "Referral Count"
ColInbound == "Inbound Referral Count"
ColPreferred == "Preferred Provider"
ColName == "Full Name"
ColScore == "Score"
InputColumns == {ColName, ColDistance, ColCount}
OptionalColumns == {ColInbound, ColPreferred}
ScratchColumns == {"norm_rank", "norm_dist", "norm_inbound", "norm_pref", "_pref_flag"}

Frac(n, d) == [n |-> n, d |-> d]
NaN == Frac(0, 0)
Zero == Frac(0, 1)
IsNaN(x) == x.d = 0
FracAdd(a, b) == Frac(a.n * b.d + b.n * a.d, a.d * b.d)
FracScale(w, a) == Frac(w * a.n, a.d)
FracLess(a, b) == a.n * b.d < b.n * a.d
FracEq(a, b) == a.n * b.d = b.n * a.d

SetMax(S) == CHOOSE x \in S : \A y \in S : y <= x
SetMin(S) == CHOOSE x \in S : \A y \in S : x <= y
Column(df, f(_)) == {f(df[i]) : i \in DOMAIN df}

Unshifted(v, lo, hi) == IF hi - lo # 0 THEN Frac(v, hi - lo) ELSE Zero

OneOnZeroRange(v, lo, hi) == IF hi - lo # 0 THEN Frac(v - lo, hi - lo) ELSE Frac(1, 1)

\* (x - min) / range if range != 0 else 0
MinMax(v, lo, hi) == IF hi - lo # 0 THEN Frac(v - lo, hi - lo) ELSE Zero

FartherIsBetter(v, lo, hi) == IF hi - lo # 0 THEN Frac(v - lo, hi - lo) ELSE Zero

\* (max - x) / range if range != 0 else 0
InvertedMinMax(v, lo, hi) == IF hi - lo # 0 THEN Frac(hi - v, hi - lo) ELSE Zero

_pref_to_int(v) == IF v \in PrefTruthy THEN 1 ELSE 0

\* df[notnull(distance) & notnull(count)], then the min_referrals cutoff
Candidates(df, min_referrals) ==
    SelectSeq(df, LAMBDA r : /\ r.dist # Null /\ r.count # Null
                             /\ (min_referrals = Null \/ r.count >= min_referrals))

\* the rows of df with the Score and the scratch columns the engine computes
ScoreRows(df, a) ==
    LET counts == Column(df, LAMBDA r : r.count)
        dists == Column(df, LAMBDA r : r.dist)
        flags == Column(df, LAMBDA r : _pref_to_int(r.pref))
        inbs == Column(df, LAMBDA r : r.inbound) \ {Null}
        usePref == a.preferred_weight > 0 /\ ColPreferred \in a.columns
        useInb == a.inbound_weight > 0 /\ ColInbound \in a.columns /\ inbs # {}
        lo == [count |-> SetMin(counts), dist |-> SetMin(dists), flag |-> SetMin(flags),
               inbound |-> IF inbs = {} THEN 0 ELSE SetMin(inbs)]
        hi == [count |-> SetMax(counts), dist |-> SetMax(dists), flag |-> SetMax(flags),
               inbound |-> IF inbs = {} THEN 0 ELSE SetMax(inbs)]
        Scored(r) ==
            LET norm_rank == MinMax(r.count, lo.count, hi.count)
                norm_dist == InvertedMinMax(r.dist, lo.dist, hi.dist)
                base == FracAdd(FracScale(a.distance_weight, norm_dist),
                                FracScale(a.referral_weight, norm_rank))
                norm_pref == MinMax(_pref_to_int(r.pref), lo.flag, hi.flag)
                withPref == IF usePref
                            THEN FracAdd(base, FracScale(a.preferred_weight, norm_pref))
                            ELSE base
                norm_inbound == IF r.inbound = Null THEN NaN
                                ELSE MinMax(r.inbound, lo.inbound, hi.inbound)
                \* the inbound branch recomputes Score from distance and referrals
                score == IF useInb /\ r.inbound # Null
                         THEN FracAdd(base, FracScale(a.inbound_weight, norm_inbound))
                         ELSE withPref
            IN  [name |-> r.name, dist |-> r.dist, count |-> r.count,
                 inbound |-> r.inbound, pref |-> r.pref,
                 Score |-> score,
                 norm_rank |-> norm_rank,
                 norm_dist |-> norm_dist,
                 norm_pref |-> IF usePref THEN norm_pref ELSE NaN,
                 norm_inbound |-> IF useInb THEN norm_inbound ELSE NaN]
    IN  [i \in 1..Len(df) |-> Scored(df[i])]

\* the columns of df once the scores are computed
ScoredColumns(df, a) ==
    a.columns \cup {"norm_rank", "norm_dist", ColScore}
      \cup (IF a.preferred_weight > 0 /\ ColPreferred \in a.columns
            THEN {"_pref_flag", "norm_pref"} ELSE {})
      \cup (IF /\ a.inbound_weight > 0 /\ ColInbound \in a.columns
               /\ \E i \in DOMAIN df : df[i].inbound # Null
            THEN {"norm_inbound"} ELSE {})

\* sort_keys, candidate_keys and sort_keys_final
SortKeys(a) ==
    LET sort_keys == IF a.distance_weight > a.referral_weight
                     THEN <<ColScore, ColDistance, ColCount>>
                     ELSE <<ColScore, ColCount, ColDistance>>
        with_inbound == IF ColInbound \in a.columns
                        THEN Append(sort_keys, ColInbound) ELSE sort_keys
        candidate_keys == Append(with_inbound, ColName)
    IN  SelectSeq(candidate_keys, LAMBDA k : k \in a.columns \cup {ColScore})

AllDescending(key) == FALSE

\* ascending = [False] * len(keys), then True for Full Name
Ascending(key) == key = ColName

\* lexical order of two names
RECURSIVE NameLess(_, _)
NameLess(x, y) ==
    IF y = <<>> THEN FALSE
    ELSE IF x = <<>> THEN TRUE
    ELSE IF Head(x) # Head(y) THEN Head(x) < Head(y)
    ELSE NameLess(Tail(x), Tail(y))

\* -1, 0, 1: the value of x in the column is below, equal to, above that of y
KeyCompare(key, x, y) ==
    LET less == IF key = ColScore THEN FracLess(x.Score, y.Score)
                ELSE IF key = ColDistance THEN x.dist < y.dist
                ELSE IF key = ColCount THEN x.count < y.count
                ELSE IF key = ColInbound THEN x.inbound < y.inbound
                ELSE NameLess(x.name, y.name)
        more == IF key = ColScore THEN FracLess(y.Score, x.Score)
                ELSE IF key = ColDistance THEN y.dist < x.dist
                ELSE IF key = ColCount THEN y.count < x.count
                ELSE IF key = ColInbound THEN y.inbound < x.inbound
                ELSE NameLess(y.name, x.name)
    IN  IF less THEN 0 - 1 ELSE IF more THEN 1 ELSE 0

\* a missing value of the column
IsNull(key, x) == key = ColInbound /\ x.inbound = Null

\* -1, 0, 1: x sorts before, with, after y on one key (na_position last)
KeyOrder(key, x, y) ==
    IF IsNull(key, x) \/ IsNull(key, y)
    THEN (IF IsNull(key, x) /\ IsNull(key, y) THEN 0 ELSE IF IsNull(key, y) THEN 0 - 1 ELSE 1)
    ELSE IF Ascending(key) THEN KeyCompare(key, x, y) ELSE 0 - KeyCompare(key, x, y)

RECURSIVE RowOrder(_, _, _)
RowOrder(keys, x, y) ==
    IF keys = <<>> THEN 0
    ELSE LET o == KeyOrder(Head(keys), x, y) IN
         IF o # 0 THEN o ELSE RowOrder(Tail(keys), x, y)

\* df.sort_values(by=keys, ascending=...): a stable sort
RECURSIVE InsertRow(_, _, _)
InsertRow(keys, x, sorted) ==
    IF sorted = <<>> THEN <<x>>
    ELSE IF RowOrder(keys, x, Head(sorted)) < 0 THEN <<x>> \o sorted
    ELSE <<Head(sorted)>> \o InsertRow(keys, x, Tail(sorted))

RECURSIVE SortValues(_, _)
SortValues(keys, df) ==
    IF df = <<>> THEN <<>>
    ELSE InsertRow(keys, df[Len(df)], SortValues(keys, SubSeq(df, 1, Len(df) - 1)))

\* what recommend_provider returns: best is a row or None, the table a
\* sequence of rows or None, each with the set of its columns
NoneValue == [none |-> TRUE, rows |-> <<>>, columns |-> {}]
recommend_provider(provider_df, a) ==
    LET df == Candidates(provider_df, a.min_referrals) IN
    IF df = <<>>
    THEN [call |-> "recommend_provider", raised |-> FALSE, best |-> NoneValue, table |-> NoneValue]
    ELSE LET df_sorted == SortValues(SortKeys(a), ScoreRows(df, a))
         IN  [call |-> "recommend_provider", raised |-> FALSE,
              best |-> [none |-> FALSE, rows |-> <<df_sorted[1]>>,
                        columns |-> ScoredColumns(df, a)],
              table |-> [none |-> FALSE, rows |-> df_sorted,
                         columns |-> ScoredColumns(df, a) \ {"_pref_flag", "norm_pref"}]]

\* the calls of the engine the model makes: weights in the order distance,
\* referral, inbound, preferred, and the optional cutoff
Request(dw, rw, iw, pw, cutoff) ==
    [call |-> "recommend_provider", distance_weight |-> dw, referral_weight |-> rw,
     inbound_weight |-> iw, preferred_weight |-> pw, min_referrals |-> cutoff, columns |-> {}]

Requests ==
    {Request(1, 0, 0, 0, Null), Request(1, 1, 0, 0, 1),
     Request(2, 1, 0, 1, Null), Request(1, 1, 1, 1, Null)}

\* the rows a table with these columns can hold
ProviderRows(columns) ==
    [name : Names, dist : DistValues, count : CountValues,
     inbound : IF ColInbound \in columns THEN InboundValues ELSE {Null},
     pref : IF ColPreferred \in columns THEN PrefValues ELSE {NoPref}]

\* the caller hands over a table with the columns it has
InitScore ==
    /\ InitState /\ file.kind = "ok" /\ focus = PROVIDER_DATA
    /\ table \in {[columns |-> InputColumns \cup c, rows |-> <<>>] : c \in SUBSET OptionalColumns}
    /\ args = NoArgs
    /\ result = NoOutcome

\* a row that could not be geocoded carries nothing else of interest
Ungeocoded(r) == r.dist = Null => (r.count = 0 /\ r.inbound = Null /\ r.pref \in {"No", NoPref})

\* one more provider in the table; names are unique after deduplication
AddRow(r) ==
    /\ result = NoOutcome
    /\ Len(table.rows) < MaxRows
    /\ \A i \in DOMAIN table.rows : table.rows[i].name # r.name
    /\ (r.inbound # Null) => ColInbound \in table.columns
    /\ (r.pref # NoPref) <=> ColPreferred \in table.columns
    /\ Ungeocoded(r)
    /\ table' = [table EXCEPT !.rows = Append(@, r)]
    /\ UNCHANGED <<now, file, cache, session_state, thr, ghost, side, args, result>>

Recommend(a) ==
    /\ result = NoOutcome
    /\ args' = [a EXCEPT !.columns = table.columns]
    /\ result' = recommend_provider(table.rows, args')
    /\ UNCHANGED <<now, file, cache, session_state, thr, ghost, side, table>>

NextScore ==
    \/ \E r \in ProviderRows(table.columns) : AddRow(r)
    \/ \E a \in Requests : Recommend(a)

SpecScore == InitScore /\ [][NextScore]_vars

(***************************************************************************)
(* The scoring engine called again and again on one table                  *)
(***************************************************************************)
MaxCalls == 3

Repeats == {Request(1, 0, 0, 0, Null), Request(1, 1, 0, 0, 1)}

SharedTable(t, df, a) ==
    IF df = <<>> THEN [t EXCEPT !.rows = df]
    ELSE [columns |-> ScoredColumns(df, a), rows |-> ScoreRows(df, a)]

\* the caller's table once the engine has worked on df, its deep copy
CallerTable(t, df, a) == t

InitRepeat ==
    /\ InitState /\ file.kind = "ok" /\ focus = PROVIDER_DATA
    /\ table = [columns |-> InputColumns, rows |-> <<>>]
    /\ args = NoArgs
    /\ result = NoOutcome

\* one more call of the engine on the caller's table
RecommendAgain(a) ==
    /\ Len(calls) < MaxCalls
    /\ args' = [a EXCEPT !.columns = table.columns]
    /\ result' = recommend_provider(table.rows, args')
    /\ table' = CallerTable(table, Candidates(table.rows, a.min_referrals), args')
    /\ calls' = Append(calls, [args |-> args', given |-> table, result |-> result'])
    /\ UNCHANGED <<now, file, cache, session_state, thr, ghost, status_file, displayed, memo>>

NextRepeat ==
    \/ \E r \in ProviderRows(table.columns) : AddRow(r)
    \/ \E a \in Repeats : RecommendAgain(a)

SpecRepeat == InitRepeat /\ [][NextRepeat]_vars

(***************************************************************************)
(* run_recommendation (src/src/app_logic.py): filters, distances, scoring  *)
(*                                                                         *)
(* Providers and the client lie on one meridian, so the haversine distance *)
(* is the difference of the latitudes; a latitude step is one mile.        *)
(* Weights are counted in halves (1 is 0.5).                               *)
(***************************************************************************)
SpecialtyValues == {<<"Chiropractic">>, <<"Neurology", "Chiropractic">>}
GenderValues == {"male", "Female"}
ClientValues == {0, 1}
Latitudes == {Null, 1, 2}
ReferralValues == {0}

\* str.title() on the gender values of the data
Title(s) == IF s = "male" THEN "Male" ELSE s

Abs(x) == IF x < 0 THEN 0 - x ELSE x

\* a latitude cell that holds a text that is no number
TextCoordinate == 0 - 3

\* to_numpy(dtype=float) raises ValueError on a text that is no number
Unconvertible(provider_df) == \E i \in DOMAIN provider_df : provider_df[i].lat = TextCoordinate

\* one element per row, None where the coordinates are missing
calculate_distances(user_lat, provider_df) ==
    [i \in DOMAIN provider_df |->
        IF provider_df[i].lat = Null THEN Null ELSE Abs(provider_df[i].lat - user_lat)]

\* a comparison with a missing distance is False
filter_providers_by_radius(df, max_radius_miles) ==
    SelectSeq(df, LAMBDA r : r.dist # Null /\ r.dist <= max_radius_miles)

filter_providers_by_specialty(df, selected_specialties) ==
    IF df = <<>> \/ selected_specialties = {} THEN df
    ELSE SelectSeq(df, LAMBDA r :
            \E k \in DOMAIN r.specialty : r.specialty[k] \in selected_specialties)

filter_providers_by_gender(df, selected_genders) ==
    IF df = <<>> \/ selected_genders = {} THEN df
    ELSE SelectSeq(df, LAMBDA r : Title(r.gender) \in selected_genders)

\* pd.DataFrame()
EmptyFrame == [none |-> FALSE, rows |-> <<>>, columns |-> {}]

NoMatch == [call |-> "run_recommendation", raised |-> FALSE, best |-> NoneValue, table |-> EmptyFrame]

TypeError == [call |-> "run_recommendation", raised |-> TRUE, best |-> NoneValue, table |-> NoneValue]

ValueError == [call |-> "run_recommendation", raised |-> TRUE, best |-> NoneValue, table |-> NoneValue]

\* the parameters in the signature of recommend_provider
Parameters ==
    {"provider_df", "distance_weight", "referral_weight", "inbound_weight",
     "preferred_weight", "min_referrals"}

\* the default values of the signature: 0.5, 0.5, 0.0, 0.0, None
Defaults ==
    [distance_weight |-> 1, referral_weight |-> 1, inbound_weight |-> 0,
     preferred_weight |-> 0, min_referrals |-> Null]

\* the columns of the working table when it reaches the engine
WorkingColumns == {ColName, "Specialty", "Gender", "Client Count", "Latitude", ColCount, ColDistance}

\* the keyword arguments run_recommendation passes to the engine
Keywords(a) ==
    [distance_weight |-> a.alpha, client_weight |-> a.beta, min_clients |-> a.min_clients]

\* a call with keyword arguments: a keyword that is no parameter is a TypeError
CallEngine(working, kw) ==
    IF DOMAIN kw \subseteq Parameters
    THEN recommend_provider(working,
            [p \in DOMAIN Defaults |-> IF p \in DOMAIN kw THEN kw[p] ELSE Defaults[p]]
                @@ [call |-> "recommend_provider", columns |-> WorkingColumns])
    ELSE TypeError

\* drop_duplicates(subset=["Full Name"], keep="first")
RECURSIVE drop_duplicates(_)
drop_duplicates(df) ==
    IF df = <<>> THEN <<>>
    ELSE LET front == drop_duplicates(SubSeq(df, 1, Len(df) - 1))
             last == df[Len(df)]
         IN IF \E i \in DOMAIN front : front[i].name = last.name THEN front
            ELSE Append(front, last)

run_recommendation(provider_df, a) ==
    LET bySpecialty == filter_providers_by_specialty(provider_df, a.selected_specialties)
        byGender == filter_providers_by_gender(bySpecialty, a.selected_genders)
        byClients == SelectSeq(byGender, LAMBDA r : r.clients >= a.min_clients)
        distances == calculate_distances(a.user_lat, byClients)
        measured == [i \in DOMAIN byClients |->
                        [name |-> byClients[i].name, dist |-> distances[i],
                         count |-> byClients[i].count, inbound |-> Null, pref |-> NoPref]]
        working == filter_providers_by_radius(measured, a.max_radius_miles)
    IN  IF a.selected_specialties # {} /\ bySpecialty = <<>> THEN NoMatch
        ELSE IF a.selected_genders # {} /\ byGender = <<>> THEN NoMatch
        ELSE IF byClients = <<>> THEN NoMatch
        ELSE IF Unconvertible(byClients) THEN ValueError
        ELSE IF working = <<>> THEN NoMatch
        ELSE LET scored == CallEngine(working, Keywords(a))
             IN IF scored.raised THEN TypeError
                ELSE [call |-> "run_recommendation", raised |-> FALSE, best |-> scored.best,
                      table |-> IF scored.table.none THEN scored.table
                                ELSE [scored.table EXCEPT !.rows = drop_duplicates(@)]]

Search(lat, min_clients, radius, specialties, genders) ==
    [call |-> "run_recommendation", user_lat |-> lat, min_clients |-> min_clients,
     max_radius_miles |-> radius, alpha |-> 1, beta |-> 1,
     selected_specialties |-> specialties, selected_genders |-> genders]

Searches ==
    {Search(0, 0, 2, {}, {}), Search(0, 1, 2, {"Neurology"}, {}),
     Search(1, 0, 1, {}, {"Male"}), Search(0, 1, 1, {"Chiropractic"}, {"Female"})}

Providers ==
    [name : Names, specialty : SpecialtyValues, gender : GenderValues,
     clients : ClientValues, lat : Latitudes, count : ReferralValues]

InitSearch ==
    /\ InitState /\ file.kind = "ok" /\ focus = PROVIDER_DATA
    /\ table = [columns |-> WorkingColumns \ {ColDistance}, rows |-> <<>>]
    /\ args = NoArgs
    /\ result = NoOutcome

\* one more provider in the loaded data; names are unique after deduplication
AddProvider(r) ==
    /\ result = NoOutcome
    /\ Len(table.rows) < MaxRows
    /\ \A i \in DOMAIN table.rows : table.rows[i].name # r.name
    /\ table' = [table EXCEPT !.rows = Append(@, r)]
    /\ UNCHANGED <<now, file, cache, session_state, thr, ghost, side, args, result>>

\* the Results page runs the search
RunRecommendation(a) ==
    /\ result = NoOutcome
    /\ args' = a
    /\ result' = run_recommendation(table.rows, a)
    /\ UNCHANGED <<now, file, cache, session_state, thr, ghost, side, table>>

NextSearch ==
    \/ \E r \in Providers : AddProvider(r)
    \/ \E a \in Searches : RunRecommendation(a)

SpecSearch == InitSearch /\ [][NextSearch]_vars

(***************************************************************************)
(* The distance calculator and the radius filter, applied one by one       *)
(***************************************************************************)
Coordinates == Latitudes \cup {TextCoordinate}
UserLatitudes == {0, 1}
Radii == {0, 1, 2}

Places ==
    [name : Names, lat : Coordinates, dist : {Null}, count : CountValues,
     inbound : {Null}, pref : {NoPref}]

InitDistance ==
    /\ InitState /\ file.kind = "ok" /\ focus = PROVIDER_DATA
    /\ table = [columns |-> {ColName, "Latitude", ColCount}, rows |-> <<>>]
    /\ args = NoArgs
    /\ result = NoOutcome

\* one more provider, not yet measured
AddPlace(r) ==
    /\ result = NoOutcome
    /\ ColDistance \notin table.columns
    /\ Len(table.rows) < MaxRows
    /\ \A i \in DOMAIN table.rows : table.rows[i].name # r.name
    /\ table' = [table EXCEPT !.rows = Append(@, r)]
    /\ UNCHANGED <<now, file, cache, session_state, thr, ghost, side, args, result>>

\* working["Distance (Miles)"] = calculate_distances(user_lat, user_lon, working)
Measure(user_lat) ==
    /\ result = NoOutcome
    /\ ColDistance \notin table.columns
    /\ args' = [call |-> "calculate_distances", user_lat |-> user_lat]
    /\ IF Unconvertible(table.rows)
       THEN /\ result' = [call |-> "calculate_distances", raised |-> TRUE]
            /\ table' = table
       ELSE /\ result' = result
            /\ table' = [columns |-> table.columns \cup {ColDistance},
                         rows |-> LET distances == calculate_distances(user_lat, table.rows)
                                  IN [i \in DOMAIN table.rows |->
                                         [table.rows[i] EXCEPT !.dist = distances[i]]]]
    /\ UNCHANGED <<now, file, cache, session_state, thr, ghost, side>>

FilterRadius(max_radius_miles) ==
    /\ result = NoOutcome
    /\ ColDistance \in table.columns
    /\ args' = [call |-> "filter_providers_by_radius", max_radius_miles |-> max_radius_miles]
    /\ result' = [call |-> "filter_providers_by_radius", raised |-> FALSE,
                  table |-> [none |-> FALSE, columns |-> table.columns,
                             rows |-> filter_providers_by_radius(table.rows, max_radius_miles)]]
    /\ UNCHANGED <<now, file, cache, session_state, thr, ghost, side, table>>

\* the scoring engine on the measured table
RankMeasured(a) == ColDistance \in table.columns /\ Recommend(a)

NextDistance ==
    \/ \E r \in Places : AddPlace(r)
    \/ \E user_lat \in UserLatitudes : Measure(user_lat)
    \/ \E radius \in Radii : FilterRadius(radius)
    \/ \E a \in Requests : RankMeasured(a)

SpecDistance == InitDistance /\ [][NextDistance]_vars

(***************************************************************************)
(* Schema normalization of the referral count (src/src/data/ingestion.py)  *)
(***************************************************************************)
ColPatients == "patient_count"

\* cells of the raw patient_count column
Missing == [kind |-> "nan"]
Str(s) == [kind |-> "str", s |-> s]
Num(n, d) == [kind |-> "num", n |-> n, d |-> d]

\* the texts that parse as a number
Numerals == [s \in {"3"} |-> 3]

RawCounts == {Missing, Str("n/a"), Str("3"), Num(0 - 1, 1), Num(0, 1), Num(5, 2)}

\* pd.to_numeric(errors="coerce") on one cell
to_numeric(v) ==
    IF v.kind = "num" THEN Frac(v.n, v.d)
    ELSE IF v.kind = "str" /\ v.s \in DOMAIN Numerals THEN Frac(Numerals[v.s], 1)
    ELSE NaN

fillna(x, value) == IF IsNaN(x) THEN Frac(value, 1) ELSE x

\* astype(int) truncates toward zero
astype_int(x) == IF x.n >= 0 THEN x.n \div x.d ELSE 0 - ((0 - x.n) \div x.d)

\* the column mapping and the numeric conversion of _transform_combined_data
StandardCounts(raw) ==
    IF ColPatients \notin raw.columns THEN raw
    ELSE [columns |-> raw.columns \cup {ColCount},
          rows |-> [i \in DOMAIN raw.rows |->
                      [name |-> raw.rows[i].name, patients |-> raw.rows[i].patients,
                       count |-> astype_int(fillna(to_numeric(raw.rows[i].patients), 0))]]]

\* Full Name has a duplicate
Duplicated(df) == \E i, j \in DOMAIN df : i # j /\ df[i].name = df[j].name

FirstSeenCounts(t) ==
    IF t.rows = <<>> \/ ColCount \notin t.columns THEN t
    ELSE [t EXCEPT !.rows = drop_duplicates(@)]

\* deduplication and retyping of _process_provider_data
ProviderCounts(t) ==
    IF t.rows = <<>> THEN t
    ELSE IF ColCount \notin t.columns
    THEN [columns |-> t.columns \cup {ColCount},
          rows |-> LET unique == drop_duplicates(t.rows)
                   IN [i \in DOMAIN unique |-> [unique[i] EXCEPT !.count = 1]]]
    ELSE LET unique == IF Duplicated(t.rows)
                       THEN drop_duplicates(SortValues(<<ColCount>>, t.rows))
                       ELSE t.rows
         IN [t EXCEPT !.rows =
                [i \in DOMAIN unique |->
                    [unique[i] EXCEPT !.count =
                        astype_int(fillna(Frac(unique[i].count, 1), 0))]]]

\* the table a source is loaded as
LoadedCounts(source, raw) ==
    IF source = PROVIDER_DATA THEN ProviderCounts(StandardCounts(raw)) ELSE StandardCounts(raw)

\* the table load_data returns: the roster is processed once more
LoadDataCounts(source, raw) ==
    LET df == LoadedCounts(source, raw)
    IN  IF source = PROVIDER_DATA /\ df.rows # <<>> THEN ProviderCounts(df) ELSE df

RawRows(columns) ==
    [name : Names, patients : IF ColPatients \in columns THEN RawCounts ELSE {Missing},
     count : {Null}]

InitNorm ==
    /\ InitState /\ file.kind = "ok" /\ focus = PROVIDER_DATA
    /\ table \in {[columns |-> {ColName} \cup c, rows |-> <<>>] : c \in SUBSET {ColPatients}}
    /\ args = NoArgs
    /\ result = NoOutcome

\* one more row in the parquet file
AddRaw(r) ==
    /\ result = NoOutcome
    /\ Len(table.rows) < MaxRows
    /\ table' = [table EXCEPT !.rows = Append(@, r)]
    /\ UNCHANGED <<now, file, cache, session_state, thr, ghost, side, args, result>>

\* the file is read and processed for a source
Normalize(source) ==
    /\ result = NoOutcome
    /\ args' = [call |-> "load", source |-> source]
    /\ result' = [call |-> "load", raised |-> FALSE, table |-> LoadDataCounts(source, table)]
    /\ UNCHANGED <<now, file, cache, session_state, thr, ghost, side, table>>

NextNorm ==
    \/ \E r \in RawRows(table.columns) : AddRaw(r)
    \/ \E source \in DataSource : Normalize(source)

SpecNorm == InitNorm /\ [][NextNorm]_vars

(***************************************************************************)
(* Schema normalization of whole tables (src/src/data/ingestion.py).       *)
(* A row is a function from the columns of its table to cells.             *)
(***************************************************************************)
ColFirst == "Provider First Name"
ColLast == "Provider Last Name"
ColType == "referral_type"
ColPerson == "Person ID"
ColAddress == "Work Address"
ColPhone == "Work Phone"
ColLatitude == "Latitude"

\* column_mapping of _transform_combined_data, in the order of the dict
column_mapping ==
    <<[old |-> "Telephone Number", new |-> ColPhone],
      [old |-> "Full Address", new |-> ColAddress],
      [old |-> "latitude", new |-> ColLatitude],
      [old |-> "longitude", new |-> "Longitude"],
      [old |-> "pri_spec", new |-> "Specialty"],
      [old |-> ColPatients, new |-> ColCount],
      [old |-> "star_value", new |-> "Rating"],
      [old |-> "gndr", new |-> "Gender"]>>

cleaned_indicators == {ColName, ColAddress, ColPhone, ColLatitude, "Longitude", ColType}

_is_cleaned_data(t) == Cardinality(cleaned_indicators \cap t.columns) >= 4

\* fillna('') of a text cell
Text(v) == IF v.kind = "str" THEN v.s ELSE ""

\* (first + ' ' + last).strip() of texts without outer blanks
JoinName(first, last) ==
    IF first = "" THEN last ELSE IF last = "" THEN first ELSE first \o " " \o last

\* pd.to_numeric(errors="coerce") as a cell
NumericCell(v) == LET x == to_numeric(v) IN IF IsNaN(x) THEN Missing ELSE Num(x.n, x.d)

\* to_numeric(errors="coerce").fillna(0).astype(int) as a cell
IntCell(v) == Num(astype_int(fillna(to_numeric(v), 0)), 1)

\* astype(str).replace(["nan", "None", "NaN", ""], "").fillna("") of a text cell
TextCell(v) == IF v.kind = "str" /\ v.s \notin {"nan", "None", "NaN"} THEN v ELSE Str("")

\* df[column] = f(row) for every row
Assign(t, column, f(_)) ==
    [columns |-> t.columns \cup {column},
     rows |-> [i \in DOMAIN t.rows |->
                 [c \in t.columns \cup {column} |->
                     IF c = column THEN f(t.rows[i]) ELSE t.rows[i][c]]]]

\* the same, when the column exists
Retype(t, column, f(_)) ==
    IF column \in t.columns THEN Assign(t, column, LAMBDA r : f(r[column])) ELSE t

RECURSIVE MapColumns(_, _)
MapColumns(t, k) ==
    IF k > Len(column_mapping) THEN t
    ELSE MapColumns(IF column_mapping[k].old \in t.columns
                    THEN Assign(t, column_mapping[k].new, LAMBDA r : r[column_mapping[k].old])
                    ELSE t,
                    k + 1)

TransformTable(raw) ==
    LET named == IF ColFirst \in raw.columns /\ ColLast \in raw.columns
                 THEN Assign(raw, ColName,
                             LAMBDA r : Str(JoinName(Text(r[ColFirst]), Text(r[ColLast]))))
                 ELSE raw
        mapped == MapColumns(named, 1)
        phoned == IF ColPhone \in mapped.columns /\ "Work Phone Number" \notin mapped.columns
                  THEN Assign(mapped, "Work Phone Number", LAMBDA r : r[ColPhone])
                  ELSE mapped
        typed == Assign(phoned, ColType, LAMBDA r : Str("provider"))
        lat == Retype(typed, ColLatitude, NumericCell)
        lon == Retype(lat, "Longitude", NumericCell)
        counted == Retype(lon, ColCount, IntCell)
    IN  Retype(counted, "Rating", NumericCell)

\* the full names of the data, in lexical order
FullNames == <<"Ann", "Ann Lee", "Bo Roy">>

\* a cell is NaN
IsMissing(v) == v.kind = "nan"

\* the count cell a sorts before the count cell b, descending, NaN last
CountBefore(a, b) ==
    /\ ~IsMissing(a)
    /\ IsMissing(b) \/ FracLess(Frac(b.n, b.d), Frac(a.n, a.d))

\* sort_values("Referral Count", ascending=False)
RECURSIVE SortByCount(_)
SortByCount(df) ==
    IF df = <<>> THEN <<>>
    ELSE LET front == SortByCount(SubSeq(df, 1, Len(df) - 1))
             last == df[Len(df)]
             before == SelectSeq(front, LAMBDA r : ~CountBefore(last[ColCount], r[ColCount]))
             after == SelectSeq(front, LAMBDA r : CountBefore(last[ColCount], r[ColCount]))
         IN before \o <<last>> \o after

\* drop_duplicates(subset="Full Name", keep="first")
RECURSIVE DropDuplicateNames(_)
DropDuplicateNames(df) ==
    IF df = <<>> THEN <<>>
    ELSE LET front == DropDuplicateNames(SubSeq(df, 1, Len(df) - 1))
             last == df[Len(df)]
         IN IF \E i \in DOMAIN front : front[i][ColName] = last[ColName] THEN front
            ELSE Append(front, last)

\* df["Full Name"].duplicated().any()
DuplicatedNames(df) == \E i, j \in DOMAIN df : i # j /\ df[i][ColName] = df[j][ColName]

\* the typing that ends both branches of _process_provider_data
CleanColumns(t, numeric) ==
    LET address == Retype(t, ColAddress, TextCell)
        phone == Retype(address, ColPhone, TextCell)
        specialty == Retype(phone, "Specialty", TextCell)
        lat == Retype(specialty, ColLatitude, NumericCell)
        lon == Retype(lat, "Longitude", NumericCell)
        count == Retype(lon, ColCount, NumericCell)
    IN  IF numeric THEN Retype(Retype(count, "Rating", NumericCell), ColCount, IntCell)
        ELSE count

\* the columns the legacy aggregation takes the first value of
FirstColumns == {ColAddress, ColPhone, ColLatitude, "Longitude", "Specialty"}

\* groupby("Full Name", as_index=False).agg(agg_dict): one row per name, in
\* the order of the names; count of the non-null ids, first non-null of the rest
GroupByName(t) ==
    LET kept == (FirstColumns \cap t.columns) \cup {ColName}
                    \cup (IF ColPerson \in t.columns THEN {ColPerson} ELSE {})
        present == SelectSeq(FullNames, LAMBDA n : \E i \in DOMAIN t.rows : t.rows[i][ColName] = Str(n))
        group(n) == SelectSeq(t.rows, LAMBDA r : r[ColName] = Str(n))
        first(g, c) == LET full == SelectSeq(g, LAMBDA r : ~IsMissing(r[c]))
                       IN IF full = <<>> THEN Missing ELSE full[1][c]
        count(g) == Num(Len(SelectSeq(g, LAMBDA r : ~IsMissing(r[ColPerson]))), 1)
    IN  [columns |-> kept,
         rows |-> [k \in DOMAIN present |->
                     [c \in kept |->
                         IF c = ColName THEN Str(present[k])
                         ELSE IF c = ColPerson THEN count(group(present[k]))
                         ELSE first(group(present[k]), c)]]]

\* rename(columns={"Person ID": "Referral Count"})
RenamePerson(t) ==
    [columns |-> (t.columns \ {ColPerson}) \cup {ColCount},
     rows |-> [i \in DOMAIN t.rows |->
                 [c \in (t.columns \ {ColPerson}) \cup {ColCount} |->
                     IF c = ColCount THEN t.rows[i][ColPerson] ELSE t.rows[i][c]]]]

ProcessProviderTable(t) ==
    IF t.rows = <<>> \/ ColName \notin t.columns THEN t
    ELSE IF ColCount \in t.columns
    THEN CleanColumns([t EXCEPT !.rows = IF DuplicatedNames(@)
                                         THEN DropDuplicateNames(SortByCount(@)) ELSE @],
                      TRUE)
    ELSE IF (FirstColumns \cup {ColPerson}) \cap t.columns # {}
    THEN LET grouped == GroupByName(t)
         IN CleanColumns(IF ColPerson \in grouped.columns THEN RenamePerson(grouped)
                         ELSE Assign(grouped, ColCount, LAMBDA r : Num(1, 1)),
                         FALSE)
    ELSE CleanColumns(Assign([t EXCEPT !.rows = DropDuplicateNames(@)], ColCount,
                             LAMBDA r : Num(1, 1)),
                      FALSE)

\* the table load_data returns for a source whose file holds raw
LoadTable(source, raw) ==
    LET df == TransformTable(raw)
        cached == IF source = PROVIDER_DATA THEN ProcessProviderTable(df) ELSE df
    IN  IF source = PROVIDER_DATA /\ cached.rows # <<>> THEN ProcessProviderTable(cached)
        ELSE cached

\* the layouts of the parquet file: the combined contacts, the same without
\* counts, and a cleaned referral table
Layouts ==
    {{ColFirst, ColLast, "Full Address", "latitude", ColPatients},
     {ColFirst, ColLast, "Full Address", "latitude"},
     {ColName, ColAddress, ColLatitude, ColType, ColPerson}}

\* the cells a column of the file can hold
Cells(column) ==
    IF column = ColFirst THEN {Str("Ann")}
    ELSE IF column = ColLast THEN {Str("Lee"), Missing}
    ELSE IF column = "Full Address" THEN {Str("1 Main St"), Missing}
    ELSE IF column = "latitude" THEN {Num(1, 1)}
    ELSE IF column = ColPatients THEN {Num(1, 1), Num(2, 1)}
    ELSE IF column = ColName THEN {Str("Ann Lee"), Str("Bo Roy")}
    ELSE IF column = ColAddress THEN {Str("1 Main St")}
    ELSE IF column = ColLatitude THEN {Num(1, 1), Str("n/a")}
    ELSE IF column = ColType THEN {Str("inbound"), Str("provider")}
    ELSE {Num(7, 1)}

\* the rows of a file with these columns
RECURSIVE FileRows(_)
FileRows(columns) ==
    IF columns = {} THEN {<<>>}
    ELSE LET c == CHOOSE x \in columns : TRUE
         IN {(c :> v) @@ r : v \in Cells(c), r \in FileRows(columns \ {c})}

InitSchema ==
    /\ InitState /\ file.kind = "ok" /\ focus = PROVIDER_DATA
    /\ table \in {[columns |-> c, rows |-> <<>>] : c \in Layouts}
    /\ args = NoArgs
    /\ result = NoOutcome

\* one more row in the parquet file
AddFileRow(r) ==
    /\ result = NoOutcome
    /\ Len(table.rows) < MaxRows
    /\ table' = [table EXCEPT !.rows = Append(@, r)]
    /\ UNCHANGED <<now, file, cache, session_state, thr, ghost, side, args, result>>

\* the file is loaded for a source
LoadSchema(source) ==
    /\ result = NoOutcome
    /\ args' = [call |-> "normalize", source |-> source]
    /\ result' = [call |-> "normalize", raised |-> FALSE, given |-> table,
                  table |-> LoadTable(source, table)]
    /\ UNCHANGED <<now, file, cache, session_state, thr, ghost, side, table>>

\* the normalized table is normalized once more for the same source
Renormalize ==
    /\ result # NoOutcome /\ result.call = "normalize"
    /\ args' = [args EXCEPT !.call = "renormalize"]
    /\ result' = [call |-> "renormalize", raised |-> FALSE, given |-> result.table,
                  table |-> LoadTable(args.source, result.table)]
    /\ UNCHANGED <<now, file, cache, session_state, thr, ghost, side, table>>

NextSchema ==
    \/ \E r \in FileRows(table.columns) : AddFileRow(r)
    \/ \E source \in DataSource : LoadSchema(source)
    \/ Renormalize

SpecSchema == InitSchema /\ [][NextSchema]_vars

(***************************************************************************)
(* Properties of the cache manager                                         *)
(***************************************************************************)
\* the page loads that have returned
Returned == {t \in Threads : thr[t].pc = "done" /\ thr[t].ctx = "page"}

\* C1: a load_data call that finds an entry stored for the same logical id
\* and the same modification time less than TTL seconds ago, no purge having
\* happened since, reads nothing from the file and returns the stored table.
CacheHitWithinTTL ==
    \A t \in Returned :
        LET r == thr[t] IN
        (r.pre.valid /\ r.pre.age # NoDate /\ r.pre.age < TTL)
            => r.reads = 0 /\ r.res = r.pre.stored

CacheHitWithinTTLWitness ==
    \E t \in Returned :
        LET r == thr[t] IN
        /\ r.pre.valid /\ r.pre.age > 0 /\ r.pre.age < TTL
        /\ r.reads = 0 /\ r.res.kind = "table" /\ r.res = r.pre.stored

\* C2: a cached call that finds the entry of its key stored more than TTL
\* seconds ago (same modification time, no purge since) reads the file
\* exactly once and stores a new entry created at the time of the reload.
ReloadAfterTTLStep ==
    \A t \in Threads :
        LET r == thr[t]
            h == hist[r.cur]
        IN  (r.pc = "cached" /\ thr'[t].pc # "cached"
               /\ h.done /\ h.m = r.lm /\ now - h.at > TTL)
            => /\ thr'[t].reads = 1
               /\ cache'[CacheKey(r.cur, ParquetPath, r.lm)].present
               /\ cache'[CacheKey(r.cur, ParquetPath, r.lm)].created = now

ReloadAfterTTL == [][ReloadAfterTTLStep]_vars

ReloadAfterTTLWitness ==
    \E t \in Returned :
        LET r == thr[t] IN
        /\ r.pre.valid /\ r.pre.age > TTL /\ r.reads = 1
        /\ r.res.kind = "table"
        /\ cache[CacheKey(r.cur, ParquetPath, r.lm)].present /\ cache[CacheKey(r.cur, ParquetPath, r.lm)].created = now

\* C3: the first load_data call that sees a new modification time of the
\* file reads the file once and, the read succeeding, returns the table of
\* that modification time, whatever the age of the older entries.
ReloadOnFileChange ==
    \A t \in Returned :
        LET r == thr[t] IN
        (r.pre.valid /\ r.pre.changed)
            => /\ r.reads = 1
               /\ r.fail = "none" => (r.res.kind = "table" /\ r.res.ver = r.lm)

ReloadOnFileChangeWitness ==
    \E t \in Returned :
        LET r == thr[t] IN
        /\ r.pre.valid /\ r.pre.changed /\ ~r.pre.purged
        /\ r.reads = 1 /\ r.res.kind = "table" /\ r.res.ver = r.lm
        /\ \E m \in Mtimes :
              /\ m < r.lm
              /\ Live(cache[<<r.cur, ParquetPath, m>>], now)
              /\ cache[<<r.cur, ParquetPath, m>>].data.kind = "table"

\* C4: from a purge until the next cached call for a logical id the store
\* holds no entry for that id, and that next call reads the file.
MissAfterPurge ==
    /\ \A src \in DataSource :
          purgedSince[src] => \A m \in Mtimes : ~cache[<<src, ParquetPath, m>>].present
    /\ \A t \in Returned :
          (thr[t].pre.valid /\ thr[t].pre.purged) => thr[t].reads = 1

\* both loads happened at the same instant with the same modification time:
\* the second missed because of the purge between them
MissAfterPurgeWitness ==
    \E t1 \in Returned, t2 \in Returned :
        /\ now = StartTime
        /\ thr[t1].pre.valid /\ ~thr[t1].pre.purged
        /\ thr[t1].reads = 1 /\ thr[t1].res.kind = "table"
        /\ thr[t2].pre.valid /\ thr[t2].pre.purged /\ ~thr[t2].pre.changed
        /\ thr[t2].reads = 1 /\ thr[t2].lm = thr[t1].lm
        /\ thr[t2].res = thr[t1].res

\* C5: while a load_data call stands between its stat() and its cached
\* call, no other thread changes the entry of its key.
AtomicGetStep ==
    \A t \in Threads :
        (thr[t].pc = "cached" /\ thr'[t] = thr[t] /\ now' = now)
            => cache'[CacheKey(thr[t].cur, ParquetPath, thr[t].lm)] = cache[CacheKey(thr[t].cur, ParquetPath, thr[t].lm)]

AtomicGet == [][AtomicGetStep]_vars

\* C6: on one calendar day at most one daily check purges the cache.
OnePurgePerDay == \A d \in Days : purgesOn[d] <= 1

\* the daily checks that have reported
Reported == {s \in Sessions : thr[s].pc = "spawn"}

\* the condition of the claim, on the time and the date the check read
DueAt(t, last) == TimeOfDay(t) >= RefreshTime /\ (last = NoDate \/ last # Day(t))

\* C7: the daily check reports True, having purged, recorded the date and
\* preloaded, exactly when it ran at or after 04:00 with the recorded date
\* unset or of another day; otherwise it reports False and changes neither
\* the store nor the recorded date.
DailyReport ==
    \A s \in Reported :
        LET r == thr[s] IN
        /\ r.ret = "True" <=> DueAt(r.at, r.last)
        /\ r.ret = "True" => (r.didPurge /\ r.didDate /\ session_state[s] = Day(r.at))
        /\ r.ret # "True" => (r.ret = "False" /\ ~r.didPurge /\ ~r.didDate)

DailyCheckStep ==
    \A s \in Sessions :
        (thr[s].pc = "idle" /\ thr'[s].ctx = "daily")
            => IF DueAt(now, session_state[s])
               THEN thr'[s].pc = "d_purge"
               ELSE /\ thr'[s].pc = "spawn" /\ thr'[s].ret = "False"
                    /\ cache' = cache /\ session_state' = session_state

DailyCheckContract == []DailyReport /\ [][DailyCheckStep]_vars

DailyCheckContractWitness ==
    \E s1 \in Reported, s2 \in Reported :
        /\ thr[s1].ret = "True" /\ thr[s1].didPurge
        /\ thr[s1].attempted = DataSource
        /\ thr[s2].ret = "False"
        /\ TimeOfDay(thr[s2].at) >= RefreshTime /\ thr[s2].last = Day(thr[s2].at)

\* C8: a daily check does not purge on a day for which another session has
\* already recorded its refresh.
OneDateForAllSessionsStep ==
    \A s \in Sessions :
        (thr[s].pc = "idle" /\ thr'[s].pc = "d_purge")
            => \A o \in Sessions \ {s} : session_state[o] # Day(now)

OneDateForAllSessions == [][OneDateForAllSessionsStep]_vars

\* C9: a warm-up that has returned has attempted every critical source and
\* let no exception out.
PreloadBestEffort ==
    \A b \in Background :
        thr[b].pc = "done"
            => /\ thr[b].attempted = {critical_sources[i] : i \in 1..Len(critical_sources)}
               /\ ~thr[b].raised

\* the first source failed and the last one was still loaded
PreloadBestEffortWitness ==
    \E b \in Background :
        /\ thr[b].pc = "done"
        /\ critical_sources[1] \notin thr[b].loaded
        /\ critical_sources[Len(critical_sources)] \in thr[b].loaded
        /\ thr[b].attempted = DataSource

\* C10: load_data returns a table in every case, and the empty one both
\* when the file is missing and when it cannot be read.
LoadNeverRaises ==
    /\ \A t \in Threads : thr[t].res.kind # "raise"
    /\ \A t \in Returned :
          /\ thr[t].res.kind \in {"table", "empty"}
          /\ thr[t].fail # "none" => thr[t].res = Empty

LoadNeverRaisesWitness ==
    \E t1 \in Returned, t2 \in Returned :
        /\ thr[t1].fail = "missing" /\ thr[t2].fail = "corrupt"
        /\ thr[t1].res = thr[t2].res /\ thr[t1].res = Empty

(***************************************************************************)
(* Properties of the scoring engine                                        *)
(***************************************************************************)
\* the engine has returned a ranked table
HasRanking == result.call = "recommend_provider" /\ ~result.raised /\ ~result.table.none
Ranked == result.table.rows

\* min-max normalization of one criterion over the ranked pool, as specified
PoolNorm(f(_), r, inverted) ==
    LET vals == {f(Ranked[i]) : i \in DOMAIN Ranked} \ {Null}
        lo == SetMin(vals)
        hi == SetMax(vals)
    IN  IF f(r) = Null \/ hi = lo THEN Zero
        ELSE IF inverted THEN Frac(hi - f(r), hi - lo) ELSE Frac(f(r) - lo, hi - lo)

\* the sum of weight times normalized value over the criteria provided
WeightedSum(r) ==
    LET d == FracScale(args.distance_weight, PoolNorm(LAMBDA x : x.dist, r, TRUE))
        c == FracScale(args.referral_weight, PoolNorm(LAMBDA x : x.count, r, FALSE))
        p == IF args.preferred_weight > 0 /\ ColPreferred \in args.columns
             THEN FracScale(args.preferred_weight,
                            PoolNorm(LAMBDA x : _pref_to_int(x.pref), r, FALSE))
             ELSE Zero
        i == IF args.inbound_weight > 0 /\ ColInbound \in args.columns
             THEN FracScale(args.inbound_weight, PoolNorm(LAMBDA x : x.inbound, r, FALSE))
             ELSE Zero
    IN  FracAdd(FracAdd(d, c), FracAdd(p, i))

\* C11: the Score of every ranked row is the sum, over the criteria provided,
\* of weight times normalized value.
ScoreIsWeightedSum ==
    HasRanking => \A k \in DOMAIN Ranked : FracEq(Ranked[k].Score, WeightedSum(Ranked[k]))

\* the tie-break order as specified: Distance and Full Name ascending, the
\* other keys descending
SpecifiedOrder(key, x, y) ==
    IF IsNull(key, x) \/ IsNull(key, y)
    THEN (IF IsNull(key, x) /\ IsNull(key, y) THEN 0 ELSE IF IsNull(key, y) THEN 0 - 1 ELSE 1)
    ELSE IF key \in {ColDistance, ColName}
         THEN KeyCompare(key, x, y) ELSE 0 - KeyCompare(key, x, y)

RECURSIVE SpecifiedRowOrder(_, _, _)
SpecifiedRowOrder(keys, x, y) ==
    IF keys = <<>> THEN 0
    ELSE LET o == SpecifiedOrder(Head(keys), x, y) IN
         IF o # 0 THEN o ELSE SpecifiedRowOrder(Tail(keys), x, y)

\* C12: the ranked table is in the order Score descending, then Distance
\* ascending and count descending (distance weight the larger) or count
\* descending and Distance ascending, then inbound count descending, then
\* full name ascending.
RankedInSpecifiedOrder ==
    HasRanking =>
        \A k \in 1..(Len(Ranked) - 1) :
            SpecifiedRowOrder(SortKeys(args), Ranked[k], Ranked[k + 1]) <= 0

\* rows that share Score, Distance and count
TiedTriple(x, y) ==
    FracEq(x.Score, y.Score) /\ x.dist = y.dist /\ x.count = y.count

\* C13 as stated: rows with identical Score, Distance and count appear in
\* ascending order of their names.
TiesAlphabetical ==
    HasRanking =>
        \A j \in DOMAIN Ranked : \A k \in DOMAIN Ranked :
            (j < k /\ TiedTriple(Ranked[j], Ranked[k]))
                => NameLess(Ranked[j].name, Ranked[k].name)

\* C13: rows with identical Score, Distance, count and inbound count appear
\* in ascending order of their names.
FullTiesAlphabetical ==
    HasRanking =>
        \A j \in DOMAIN Ranked : \A k \in DOMAIN Ranked :
            (j < k /\ TiedTriple(Ranked[j], Ranked[k]) /\ Ranked[j].inbound = Ranked[k].inbound)
                => NameLess(Ranked[j].name, Ranked[k].name)

\* a full tie with the inbound column present, handed over in descending
\* order of name
FullTiesAlphabeticalWitness ==
    /\ HasRanking /\ Len(Ranked) >= 2 /\ Len(Ranked) = Len(table.rows)
    /\ ColInbound \in args.columns
    /\ TiedTriple(Ranked[1], Ranked[2]) /\ Ranked[1].inbound = Ranked[2].inbound
    /\ Ranked[1].inbound # Null
    /\ NameLess(Ranked[1].name, Ranked[2].name)
    /\ NameLess(table.rows[2].name, table.rows[1].name)

\* a fraction between 0 and 1
InUnit(x) == ~IsNaN(x) /\ x.d > 0 /\ 0 <= x.n /\ x.n <= x.d

SumOfWeights ==
    args.distance_weight + args.referral_weight + args.inbound_weight + args.preferred_weight

SameForAll(f(_)) == \A j \in DOMAIN Ranked : \A k \in DOMAIN Ranked : f(Ranked[j]) = f(Ranked[k])

\* a normalized value that is the number 0
IsZero(x) == ~IsNaN(x) /\ x.n = 0

\* C15: a criterion on which all candidates agree has the normalized value 0
\* in every row, and when they agree on every weighted criterion every
\* Score is 0.
ZeroRange ==
    HasRanking =>
        /\ SameForAll(LAMBDA r : r.count) => \A k \in DOMAIN Ranked : IsZero(Ranked[k].norm_rank)
        /\ SameForAll(LAMBDA r : r.dist) => \A k \in DOMAIN Ranked : IsZero(Ranked[k].norm_dist)
        /\ ("norm_pref" \in result.best.columns /\ SameForAll(LAMBDA r : _pref_to_int(r.pref)))
              => \A k \in DOMAIN Ranked : IsZero(Ranked[k].norm_pref)
        /\ ("norm_inbound" \in result.best.columns /\ SameForAll(LAMBDA r : r.inbound))
              => \A k \in DOMAIN Ranked : IsZero(Ranked[k].norm_inbound)
        /\ (/\ SameForAll(LAMBDA r : r.count) /\ SameForAll(LAMBDA r : r.dist)
            /\ SameForAll(LAMBDA r : _pref_to_int(r.pref)) /\ SameForAll(LAMBDA r : r.inbound))
              => \A k \in DOMAIN Ranked : IsZero(Ranked[k].Score)

\* several candidates with one count, the count weighted, the distances apart
ZeroRangeWitness ==
    /\ HasRanking /\ Len(Ranked) >= 2
    /\ args.referral_weight > 0
    /\ SameForAll(LAMBDA r : r.count) /\ ~SameForAll(LAMBDA r : r.dist)
    /\ "norm_inbound" \in result.best.columns /\ SameForAll(LAMBDA r : r.inbound)
    /\ \A k \in DOMAIN Ranked : IsZero(Ranked[k].norm_rank) /\ IsZero(Ranked[k].norm_inbound)

\* only the distance is weighted
DistanceOnly ==
    /\ args.distance_weight = 1 /\ args.referral_weight = 0
    /\ args.inbound_weight = 0 /\ args.preferred_weight = 0

\* C16 as stated: with only the distance weighted, the ranked table is in
\* ascending order of distance, equal distances in ascending order of name.
DistanceThenName ==
    (HasRanking /\ DistanceOnly) =>
        \A k \in 1..(Len(Ranked) - 1) :
            \/ Ranked[k].dist < Ranked[k + 1].dist
            \/ /\ Ranked[k].dist = Ranked[k + 1].dist
               /\ NameLess(Ranked[k].name, Ranked[k + 1].name)

\* the keys that break a tie of distance
DistanceTieBreak == <<ColCount, ColInbound, ColName>>

\* C16: with only the distance weighted, the ranked table is in ascending
\* order of distance, equal distances ordered by count descending, then
\* inbound count descending, then name ascending.
DistanceThenTieBreak ==
    (HasRanking /\ DistanceOnly) =>
        \A k \in 1..(Len(Ranked) - 1) :
            \/ Ranked[k].dist < Ranked[k + 1].dist
            \/ /\ Ranked[k].dist = Ranked[k + 1].dist
               /\ SpecifiedRowOrder(DistanceTieBreak, Ranked[k], Ranked[k + 1]) < 0

\* the farther provider was handed over first and has the larger count
DistanceThenTieBreakWitness ==
    /\ HasRanking /\ DistanceOnly /\ Len(Ranked) >= 2 /\ Len(Ranked) = Len(table.rows)
    /\ Ranked[1].dist < Ranked[2].dist
    /\ Ranked[1].count < Ranked[2].count
    /\ table.rows[1].name = Ranked[2].name

\* C17: when no candidate remains the engine returns None and an empty table.
NoCandidateOutcome ==
    (result.call = "recommend_provider" /\ result.best.none)
        => (~result.raised /\ ~result.table.none /\ result.table.rows = <<>>)

\* C18: neither the ranked table nor the best row has a scratch column.
NoScratchColumns ==
    result.call = "recommend_provider" =>
        /\ result.table.columns \cap ScratchColumns = {}
        /\ result.best.columns \cap ScratchColumns = {}

\* the providers that pass every filter of the search, in the order of the data
Survivors ==
    SelectSeq(table.rows, LAMBDA r :
        /\ args.selected_specialties # {} =>
              \E k \in DOMAIN r.specialty : r.specialty[k] \in args.selected_specialties
        /\ args.selected_genders # {} => Title(r.gender) \in args.selected_genders
        /\ r.clients >= args.min_clients
        /\ r.lat # Null /\ Abs(r.lat - args.user_lat) <= args.max_radius_miles)

\* C19: when a provider survives every filter, run_recommendation returns
\* normally with a best match that is the top row of its ranked table, and
\* the ranked table holds exactly the surviving providers.
SearchReturnsSurvivors ==
    (result.call = "run_recommendation" /\ Survivors # <<>>) =>
        /\ ~result.raised
        /\ ~result.best.none /\ ~result.table.none
        /\ result.best.rows[1] = result.table.rows[1]
        /\ {result.table.rows[k].name : k \in DOMAIN result.table.rows}
              = {Survivors[k].name : k \in DOMAIN Survivors}

\* C20: after schema normalization every referral count is a non-negative
\* integer.
CountsNonNegative ==
    (result.call = "load" /\ ColCount \in result.table.columns) =>
        \A k \in DOMAIN result.table.rows :
            result.table.rows[k].count \in Nat

\* C21: a table with four of the six marker columns is returned unchanged
\* by the normalizer, and normalizing a normalized table changes nothing.
NormalizationIdempotent ==
    /\ (result.call = "normalize" /\ _is_cleaned_data(result.given))
          => result.table = result.given
    /\ result.call = "renormalize" => result.table = result.given

\* the roster has been loaded from rows with a name and a count column
RosterLoaded ==
    /\ result.call = "load" /\ args.source = PROVIDER_DATA
    /\ ColPatients \in table.columns

\* the count the normalizer gives a raw row
CountOf(r) == astype_int(fillna(to_numeric(r.patients), 0))

\* C22: the provider roster holds each full name once, and the row kept
\* for a name is an input row with the highest count among the input rows
\* of that name.
RosterDeduplicated ==
    RosterLoaded =>
        LET out == result.table.rows IN
        /\ \A j, k \in DOMAIN out : out[j].name = out[k].name => j = k
        /\ \A i \in DOMAIN table.rows : \E k \in DOMAIN out : out[k].name = table.rows[i].name
        /\ \A k \in DOMAIN out :
              /\ \E i \in DOMAIN table.rows :
                    /\ table.rows[i].name = out[k].name
                    /\ table.rows[i].patients = out[k].patients
                    /\ CountOf(table.rows[i]) = out[k].count
              /\ \A i \in DOMAIN table.rows :
                    table.rows[i].name = out[k].name => CountOf(table.rows[i]) <= out[k].count

\* two rows of one name, the smaller count first, and the larger kept
RosterDeduplicatedWitness ==
    /\ RosterLoaded /\ Len(table.rows) >= 2
    /\ table.rows[1].name = table.rows[2].name
    /\ CountOf(table.rows[1]) < CountOf(table.rows[2])
    /\ \E k \in DOMAIN result.table.rows :
          /\ result.table.rows[k].name = table.rows[1].name
          /\ result.table.rows[k].count = CountOf(table.rows[2])

\* C23: a status the warm-up has written is displayed at most once.
StatusShownOnce ==
    \A j, k \in DOMAIN displayed : displayed[j].id = displayed[k].id => j = k

\* a step of the background warm-up thread
WarmupStep == \E b \in Background : thr[b].pc # "idle" /\ thr'[b] # thr[b]

\* C24: a step of the background warm-up changes neither the session state
\* nor the frame of a session thread; it changes the cache store and the
\* status file only.
WarmupFrame ==
    [][WarmupStep => /\ session_state' = session_state
                     /\ \A s \in Sessions : thr'[s] = thr[s]
                     /\ UNCHANGED <<now, file, engine, displayed, memo, calls>>]_vars

\* the warm-up has written its status while a session has its date recorded
WarmupFrameWitness ==
    /\ status_file.exists
    /\ \E s \in Main : session_state[s] # NoDate
    /\ \E k \in Keys : cache[k].present

\* the radius filter has been applied
Filtered == result.call = "filter_providers_by_radius"

\* C25: a maximum distance of 0 keeps every provider, a positive one keeps
\* exactly the providers within it.
ZeroRadiusIsNoLimit ==
    Filtered =>
        result.table.rows =
            IF args.max_radius_miles = 0 THEN table.rows
            ELSE SelectSeq(table.rows,
                           LAMBDA r : r.dist # Null /\ r.dist <= args.max_radius_miles)

\* C26: the distance calculator raises on no table and gives a missing
\* distance where the coordinate is missing or no number and the distance
\* elsewhere; no row with a missing distance is in the output of the radius
\* filter or of the scoring engine.
NullDistances ==
    /\ result.call = "calculate_distances" => ~result.raised
    /\ (args.call = "calculate_distances" /\ ColDistance \in table.columns) =>
          \A i \in DOMAIN table.rows :
              table.rows[i].dist =
                  IF table.rows[i].lat \in {Null, TextCoordinate} THEN Null
                  ELSE Abs(table.rows[i].lat - args.user_lat)
    /\ Filtered => \A k \in DOMAIN result.table.rows : result.table.rows[k].dist # Null
    /\ HasRanking => \A k \in DOMAIN Ranked : Ranked[k].dist # Null

\* the sources preload_data goes through
Critical == {critical_sources[i] : i \in DOMAIN critical_sources}

\* C27: in a daily refresh the purge comes first, then the preload, then the
\* date is recorded, then True is reported: the date is not recorded before
\* the preload is over, and True is reported only with the date recorded.
RefreshOrder ==
    \A s \in Sessions :
        thr[s].ctx = "daily" =>
            /\ thr[s].attempted # {} => thr[s].didPurge
            /\ thr[s].didDate => (thr[s].didPurge /\ thr[s].attempted = Critical)
            /\ thr[s].ret = "True" => thr[s].didDate

KeyOf(t) == CacheKey(thr[t].cur, ParquetPath, thr[t].lm)

\* a get ends at the path test or at stat() because the file is missing
MissingStep(t) ==
    (thr[t].pc \in {"path", "stat"} /\ thr'[t].pc = "done" /\ thr'[t].fail = "missing")
        => cache' = cache /\ thr'[t].res = Empty

\* a get ends in the loader body, the file having been found and stat'ed
ReadFailureStep(t) ==
    (thr[t].pc = "cached" /\ thr'[t].pc = "done" /\ thr'[t].fail # "none")
        => /\ cache'[KeyOf(t)] = [present |-> TRUE, created |-> now, data |-> Empty]
           /\ thr'[t].reads = 1 /\ thr'[t].res = Empty

\* a get finds the empty table stored for its key less than TTL ago
EmptyHitStep(t) ==
    (thr[t].pc = "cached" /\ thr'[t].pc = "done"
       /\ cache[KeyOf(t)].present /\ now - cache[KeyOf(t)].created < TTL
       /\ cache[KeyOf(t)].data = Empty)
        => thr'[t].reads = 0 /\ thr'[t].res = Empty /\ cache' = cache

\* C29: a get that finds the file missing stores nothing; a get that fails in
\* the loader body on a file it has found stores the empty table under
\* (logical id, path, modification time); and a get that finds that entry
\* for its key, less than TTL old, returns the empty table without reading.
FailureOutcomes ==
    [][\A t \in Threads : MissingStep(t) /\ ReadFailureStep(t) /\ EmptyHitStep(t)]_vars

\* one get failed on the corrupt file and stored the empty table, the other
\* was served that entry later without reading, the file still corrupt
FailureOutcomesWitness ==
    \E t1 \in Returned, t2 \in Returned :
        /\ thr[t1].fail = "corrupt" /\ thr[t1].reads = 1 /\ thr[t1].res = Empty
        /\ thr[t2].fail = "none" /\ thr[t2].reads = 0 /\ thr[t2].res = Empty
        /\ thr[t2].pre.valid /\ thr[t2].pre.age > 0 /\ thr[t2].pre.stored = Empty
        /\ thr[t1].cur = thr[t2].cur /\ thr[t1].lm = thr[t2].lm
        /\ file.kind = "corrupt" /\ file.mtime = thr[t2].lm
        /\ cache[<<thr[t2].cur, ParquetPath, thr[t2].lm>>].data = Empty

\* the calls of a module-level loader that have returned
MemoReturned == {s \in Sessions : thr[s].ctx = "memo" /\ thr[s].pc = "done"}

\* C30: a table returned by a module-level loader is not older than the file
\* was when the loader was called: it was read from the file at the
\* modification time of the call or a later one.
MemoFollowsFile ==
    \A s \in MemoReturned :
        thr[s].res.kind = "table" => thr[s].res.ver >= thr[s].lm

====
